---- MODULE Spec2Model ----
(***************************************************************************)
(* The personal budget tracker of src/budget_tracker.py: the BudgetDB      *)
(* store (two SQLite tables, foreign keys enforced), its queries, and the  *)
(* menu flows of main() that drive it.                                     *)
(*                                                                         *)
(* Text is a sequence of character codes, so that str.strip(), strptime,   *)
(* isoformat and SQLite's bytewise TEXT comparison are computed rather     *)
(* than assumed.  An Optional value is <<>> (None) or <<v>>.               *)
(***************************************************************************)
EXTENDS Integers, Sequences, FiniteSets

\* the three tables of budget.db as committed; the connection, its foreign_keys
\* pragma and the changes it has made but not committed; the last observation
VARIABLES categories, transactions, sqlite_sequence, conn, foreign_keys, journal, last

vars == <<categories, transactions, sqlite_sequence, conn, foreign_keys, journal, last>>

(***************************************************************************)
(* Bounds of the model                                                     *)
(***************************************************************************)
\* AUTOINCREMENT counters are unbounded: inserts stop at these caps.
MaxCategories == 2
MaxTransactions == 2

(***************************************************************************)
(* Python and SQLite values.  A float is counted in hundredths: 42.5 is    *)
(* Some(4250).                                                             *)
(***************************************************************************)
None == <<>>
Some(v) == <<v>>

\* a float NaN (bound by sqlite3 as SQL NULL)
NaN == <<>>

\* character codes
SP == 32
DASH == 45
DOT == 46
ZERO == 48

IsDigit(c) == c \in 48..57

IsSpace(c) == c \in {9, 10, 11, 12, 13, 32}

Min(a, b) == IF a <= b THEN a ELSE b

\* str.strip(): drop leading and trailing whitespace
StripFrom(s) ==
    IF \A i \in 1..Len(s) : IsSpace(s[i]) THEN Len(s) + 1
    ELSE CHOOSE i \in 1..Len(s) : ~IsSpace(s[i]) /\ \A j \in 1..(i - 1) : IsSpace(s[j])

StripTo(s) ==
    IF \A i \in 1..Len(s) : IsSpace(s[i]) THEN 0
    ELSE CHOOSE i \in 1..Len(s) : ~IsSpace(s[i]) /\ \A j \in (i + 1)..Len(s) : IsSpace(s[j])

Strip(s) == IF StripTo(s) = 0 THEN <<>> ELSE SubSeq(s, StripFrom(s), StripTo(s))

\* SQLite BINARY collation on TEXT (memcmp, a proper prefix sorts first)
TextLess(a, b) ==
    LET differ == {i \in 1..Min(Len(a), Len(b)) : a[i] # b[i]}
    IN  IF differ = {} THEN Len(a) < Len(b)
        ELSE LET first == CHOOSE i \in differ : \A j \in differ : i <= j
             IN  a[first] < b[first]

TextLeq(a, b) == a = b \/ TextLess(a, b)

\* decimal digits of a natural number
RECURSIVE Digits(_)
Digits(n) == IF n < 10 THEN <<ZERO + n>> ELSE Digits(n \div 10) \o <<ZERO + (n % 10)>>

RECURSIVE Zeros(_)
Zeros(k) == IF k <= 0 THEN <<>> ELSE <<ZERO>> \o Zeros(k - 1)

\* format(n, "0{w}d"): zero padded to width w, the sign counted in the width
Format0d(n, w) ==
    IF n >= 0 /\ n < 10 ^ w THEN [i \in 1..w |-> ZERO + ((n \div (10 ^ (w - i))) % 10)]
    ELSE IF n >= 0 THEN Digits(n)
    ELSE <<DASH>> \o Zeros(w - 1 - Len(Digits(-n))) \o Digits(-n)

\* str(n) of an int
StrInt(n) == IF n >= 0 THEN Digits(n) ELSE <<DASH>> \o Digits(-n)

\* value of a digit string
RECURSIVE DigitsValue(_)
DigitsValue(s) ==
    IF s = <<>> THEN 0 ELSE 10 * DigitsValue(SubSeq(s, 1, Len(s) - 1)) + (s[Len(s)] - ZERO)

(***************************************************************************)
(* datetime.strptime(s, "%Y-%m-%d") and date.isoformat()                   *)
(***************************************************************************)
DashPositions(s) == {i \in 1..Len(s) : s[i] = DASH}

FirstDash(s) == CHOOSE i \in DashPositions(s) : \A j \in DashPositions(s) : i <= j

LastDash(s) == CHOOSE i \in DashPositions(s) : \A j \in DashPositions(s) : j <= i

AllDigits(s) == \A i \in 1..Len(s) : IsDigit(s[i])

\* %Y is \d\d\d\d
MatchesYear(f) == Len(f) = 4 /\ AllDigits(f)

\* %m is 1[0-2]|0[1-9]|[1-9]
MatchesMonth(f) ==
    /\ Len(f) \in {1, 2}
    /\ AllDigits(f)
    /\ DigitsValue(f) \in 1..12

\* %d is 3[01]|[12]\d|0[1-9]|[1-9]| [1-9]
MatchesDay(f) ==
    \/ Len(f) \in {1, 2} /\ AllDigits(f) /\ DigitsValue(f) \in 1..31
    \/ Len(f) = 2 /\ f[1] = SP /\ f[2] \in 49..57

DayValue(f) == IF f[1] = SP THEN f[2] - ZERO ELSE DigitsValue(f)

IsLeap(y) == (y % 4 = 0 /\ y % 100 # 0) \/ y % 400 = 0

DaysInMonth(y, m) ==
    IF m = 2 THEN (IF IsLeap(y) THEN 29 ELSE 28)
    ELSE IF m \in {4, 6, 9, 11} THEN 30 ELSE 31

YearField(s) == SubSeq(s, 1, FirstDash(s) - 1)

MonthField(s) == SubSeq(s, FirstDash(s) + 1, LastDash(s) - 1)

DayField(s) == SubSeq(s, LastDash(s) + 1, Len(s))

\* strptime returns a datetime (TRUE) or raises ValueError (FALSE): the string
\* does not match the format, or names no day of the calendar
StrptimeOk(s) ==
    /\ Cardinality(DashPositions(s)) = 2
    /\ MatchesYear(YearField(s))
    /\ MatchesMonth(MonthField(s))
    /\ MatchesDay(DayField(s))
    /\ DigitsValue(YearField(s)) >= 1
    /\ DayValue(DayField(s)) <= DaysInMonth(DigitsValue(YearField(s)), DigitsValue(MonthField(s)))

\* the parsed date as <<year, month, day>>
Strptime(s) == <<DigitsValue(YearField(s)), DigitsValue(MonthField(s)), DayValue(DayField(s))>>

\* date.isoformat(): "%04d-%02d-%02d"
Isoformat(d) == Format0d(d[1], 4) \o <<DASH>> \o Format0d(d[2], 2) \o <<DASH>> \o Format0d(d[3], 2)

(***************************************************************************)
(* BudgetDB: the two tables and the operations on them.  A store is the    *)
(* record [categories, transactions, sqlite_sequence]; an operation yields *)
(* the store after it, the exception it raised ("" for none) and the value *)
(* it returned.                                                            *)
(***************************************************************************)
Store(c, t, q) == [categories |-> c, transactions |-> t, sqlite_sequence |-> q]

Outcome(db, raised, returned) == [db |-> db, raised |-> raised, returned |-> returned]

IntegrityError == "IntegrityError"

\* a database file that sqlite3.connect has just created: no table yet
NewFile == <<>>

\* CREATE TABLE without IF NOT EXISTS, after DROP TABLE IF EXISTS
CreateTableIfNotExists_Replace(file, table, rows) ==
    [t \in DOMAIN file \cup {table} |-> IF t = table THEN rows ELSE file[t]]

\* CREATE TABLE IF NOT EXISTS: nothing when the file has the table
CreateTableIfNotExists(file, table, rows) ==
    IF table \in DOMAIN file THEN file
    ELSE [t \in DOMAIN file \cup {table} |-> IF t = table THEN rows ELSE file[t]]

\* the first AUTOINCREMENT table brings sqlite_sequence with it
_initialize_schema(file) ==
    CreateTableIfNotExists(
        CreateTableIfNotExists(
            CreateTableIfNotExists(file, "sqlite_sequence", [categories |-> 0, transactions |-> 0]),
            "categories", {}),
        "transactions", {})

EmptyStore == _initialize_schema(NewFile)

\* BudgetDB(filename): connect, PRAGMA foreign_keys = ON, the schema script
__init__(file) == [foreign_keys |-> TRUE, db |-> _initialize_schema(file)]

\* conn.commit() without effect
commit_Missing(file, pending) == [file |-> file, journal |-> pending]

\* conn.commit(): the pending changes become the file
commit(file, pending) ==
    [file |-> IF pending = None THEN file ELSE pending[1], journal |-> None]

MaxOf(S) == IF S = {} THEN 0 ELSE CHOOSE x \in S : \A y \in S : y <= x

\* INTEGER PRIMARY KEY without AUTOINCREMENT: one more than the largest rowid in the table
NextRowid_RowidOnly(rows, seq) == MaxOf({r.id : r \in rows}) + 1

\* INTEGER PRIMARY KEY AUTOINCREMENT: one more than the largest rowid the table ever held
NextRowid(rows, seq) == MaxOf({r.id : r \in rows} \cup {seq}) + 1

\* add_category had the name column lost its UNIQUE constraint
add_category_NotUnique(db, name) ==
    LET id == NextRowid(db.categories, db.sqlite_sequence.categories)
    IN  Outcome(Store(db.categories \cup {[id |-> id, name |-> Strip(name)]},
                      db.transactions,
                      [db.sqlite_sequence EXCEPT !.categories = id]),
                "", Some(id))

\* add_category without name.strip()
add_category_Untrimmed(db, name) ==
    LET id == NextRowid(db.categories, db.sqlite_sequence.categories)
    IN  IF \E c \in db.categories : c.name = name
        THEN Outcome(db, IntegrityError, None)
        ELSE Outcome(Store(db.categories \cup {[id |-> id, name |-> name]},
                           db.transactions,
                           [db.sqlite_sequence EXCEPT !.categories = id]),
                     "", Some(id))

\* name TEXT UNIQUE NOT NULL
add_category(db, name) ==
    LET stored == Strip(name)
        id == NextRowid(db.categories, db.sqlite_sequence.categories)
    IN  IF \E c \in db.categories : c.name = stored
        THEN Outcome(db, IntegrityError, None)
        ELSE Outcome(Store(db.categories \cup {[id |-> id, name |-> stored]},
                           db.transactions,
                           [db.sqlite_sequence EXCEPT !.categories = id]),
                     "", Some(id))

\* FOREIGN KEY(category_id) REFERENCES categories(id) ON DELETE SET NULL, enforced
\* on a connection whose foreign_keys pragma is on: the delete and the clearing
\* are one statement
SetNull_Cascade(txns, category_id) == {t \in txns : t.category_id # Some(category_id)}

\* the clearing applied to every transaction
SetNull_All(txns, category_id) == {[t EXCEPT !.category_id = None] : t \in txns}

SetNull(txns, category_id) ==
    IF foreign_keys
    THEN {IF t.category_id = Some(category_id) THEN [t EXCEPT !.category_id = None] ELSE t :
             t \in txns}
    ELSE txns

delete_category(db, category_id) ==
    LET rows == {c \in db.categories : c.id = category_id}
    IN  Outcome(Store(db.categories \ rows,
                      IF rows = {} THEN db.transactions ELSE SetNull(db.transactions, category_id),
                      db.sqlite_sequence),
                "", rows # {})

\* ORDER BY id
NameAscending_ById(a, b) == a.id < b.id

\* rows with equal keys come out in rowid order
NameAscending(a, b) == TextLess(a.name, b.name) \/ (a.name = b.name /\ a.id < b.id)

\* SELECT id, name FROM categories ORDER BY name
RECURSIVE OrderByName(_)
OrderByName(S) ==
    IF S = {} THEN <<>>
    ELSE LET first == CHOOSE r \in S : \A o \in S \ {r} : NameAscending(r, o)
         IN  <<first>> \o OrderByName(S \ {first})

list_categories(db) == OrderByName(db.categories)

\* the constraints of the transactions table
TypeCheck(txn_type) == txn_type \in {"income", "expense"}

ForeignKeyOk_Off(db, category_id) == TRUE

ForeignKeyOk(db, category_id) ==
    \/ ~foreign_keys
    \/ category_id = None
    \/ \E c \in db.categories : c.id = category_id[1]

add_transaction(db, date, amount, description, category_id, txn_type) ==
    LET id == NextRowid(db.transactions, db.sqlite_sequence.transactions)
    IN  IF amount = NaN \/ ~TypeCheck(txn_type) \/ ~ForeignKeyOk(db, category_id)
        THEN Outcome(db, IntegrityError, None)
        ELSE Outcome(Store(db.categories,
                           db.transactions \cup
                               {[id |-> id, date |-> date, amount |-> amount[1],
                                 description |-> Strip(description),
                                 category_id |-> category_id, type |-> txn_type]},
                           [db.sqlite_sequence EXCEPT !.transactions = id]),
                     "", Some(id))

\* delete_transaction returning rowcount >= 0
delete_transaction_AlwaysTrue(db, txn_id) ==
    Outcome(Store(db.categories, {t \in db.transactions : t.id # txn_id}, db.sqlite_sequence),
            "", TRUE)

delete_transaction(db, txn_id) ==
    LET rows == {t \in db.transactions : t.id = txn_id}
    IN  Outcome(Store(db.categories, db.transactions \ rows, db.sqlite_sequence),
                "", rows # {})

\* Python truth of an Optional[int] and of an Optional[str]
TruthyInt(o) == o # None /\ o[1] # 0

TruthyStr(o) == o # None /\ o[1] # <<>>

\* the WHERE clauses list_transactions appends
Selected(t, category_id, start_date, end_date) ==
    /\ TruthyInt(category_id) => t.category_id = category_id
    /\ TruthyStr(start_date) => TextLeq(start_date[1], t.date)
    /\ TruthyStr(end_date) => TextLeq(t.date, end_date[1])

DateDescIdDesc_DateOnly(a, b) == TextLess(b.date, a.date) \/ (a.date = b.date /\ a.id < b.id)

\* ORDER BY date DESC, id DESC
DateDescIdDesc(a, b) == TextLess(b.date, a.date) \/ (a.date = b.date /\ a.id > b.id)

RECURSIVE OrderByDateId(_)
OrderByDateId(S) ==
    IF S = {} THEN <<>>
    ELSE LET first == CHOOSE r \in S : \A o \in S \ {r} : DateDescIdDesc(r, o)
         IN  <<first>> \o OrderByDateId(S \ {first})

list_transactions(db, category_id, start_date, end_date) ==
    OrderByDateId({t \in db.transactions : Selected(t, category_id, start_date, end_date)})


\* the half-open interval of monthly_summary: [start, end) as TEXT
MonthStart(year, month) == Format0d(year, 4) \o <<DASH>> \o Format0d(month, 2) \o <<DASH, ZERO, ZERO + 1>>

MonthEnd(year, month) ==
    IF month = 12 THEN MonthStart(year + 1, 1) ELSE MonthStart(year, month + 1)

InMonth_Closed(t, year, month) ==
    TextLeq(MonthStart(year, month), t.date) /\ TextLeq(t.date, MonthEnd(year, month))

\* WHERE t.date >= ? AND t.date < ?
InMonth(t, year, month) ==
    TextLeq(MonthStart(year, month), t.date) /\ TextLess(t.date, MonthEnd(year, month))

\* LEFT JOIN categories c ON t.category_id = c.id: c.name, or NULL without a match
JoinedName(db, t) ==
    IF t.category_id # None /\ \E c \in db.categories : c.id = t.category_id[1]
    THEN Some((CHOOSE c \in db.categories : c.id = t.category_id[1]).name)
    ELSE None

RECURSIVE SumAmount(_)
SumAmount(S) ==
    IF S = {} THEN 0
    ELSE LET t == CHOOSE x \in S : TRUE IN t.amount + SumAmount(S \ {t})

\* GROUP BY c.name walks the groups in the order of the key, NULL first
GroupBefore(a, b) == (a = None /\ b # None) \/ (a # None /\ b # None /\ TextLess(a[1], b[1]))

RECURSIVE OrderGroups(_)
OrderGroups(S) ==
    IF S = {} THEN <<>>
    ELSE LET first == CHOOSE g \in S : \A o \in S \ {g} : GroupBefore(g, o)
         IN  <<first>> \o OrderGroups(S \ {first})

\* monthly_summary with JOIN for LEFT JOIN: transactions without a category are lost
monthly_summary_InnerJoin(db, year, month) ==
    LET rows == {t \in db.transactions : InMonth(t, year, month) /\ JoinedName(db, t) # None}
        groups == OrderGroups({JoinedName(db, t) : t \in rows})
        Group(g) == {t \in rows : JoinedName(db, t) = g}
    IN  [i \in 1..Len(groups) |->
            [name |-> groups[i],
             income_total |-> SumAmount({t \in Group(groups[i]) : t.type = "income"}),
             expense_total |-> SumAmount({t \in Group(groups[i]) : t.type = "expense"})]]

\* monthly_summary with FROM categories c LEFT JOIN transactions t: a row per category
monthly_summary_ZeroFilled(db, year, month) ==
    LET rows == {t \in db.transactions : InMonth(t, year, month)}
        groups == OrderGroups({Some(c.name) : c \in db.categories})
        Group(g) == {t \in rows : JoinedName(db, t) = g}
    IN  [i \in 1..Len(groups) |->
            [name |-> groups[i],
             income_total |-> SumAmount({t \in Group(groups[i]) : t.type = "income"}),
             expense_total |-> SumAmount({t \in Group(groups[i]) : t.type = "expense"})]]

\* monthly_summary with JOIN categories c and no ON: every transaction in every
\* category's row
monthly_summary_CrossJoin(db, year, month) ==
    LET rows == {t \in db.transactions : InMonth(t, year, month)}
        groups == IF rows = {} THEN <<>> ELSE OrderGroups({Some(c.name) : c \in db.categories})
    IN  [i \in 1..Len(groups) |->
            [name |-> groups[i],
             income_total |-> SumAmount({t \in rows : t.type = "income"}),
             expense_total |-> SumAmount({t \in rows : t.type = "expense"})]]

monthly_summary(db, year, month) ==
    LET rows == {t \in db.transactions : InMonth(t, year, month)}
        groups == OrderGroups({JoinedName(db, t) : t \in rows})
        Group(g) == {t \in rows : JoinedName(db, t) = g}
    IN  [i \in 1..Len(groups) |->
            [name |-> groups[i],
             income_total |-> SumAmount({t \in Group(groups[i]) : t.type = "income"}),
             expense_total |-> SumAmount({t \in Group(groups[i]) : t.type = "expense"})]]

\* csv.writer renders None as the empty field and everything else with str();
\* str() of a float is its shortest decimal, with one fractional digit at least
FloatDigits(h) ==
    Digits(h \div 100) \o <<DOT>> \o
        (IF h % 10 = 0 THEN <<ZERO + ((h % 100) \div 10)>> ELSE Format0d(h % 100, 2))

StrFloat(x) == IF x >= 0 THEN FloatDigits(x) ELSE <<DASH>> \o FloatDigits(0 - x)

CsvHeader == <<"ID", "Date", "Amount", "Description", "CategoryID", "Type">>

CsvRow(t) ==
    <<StrInt(t.id), t.date, StrFloat(t.amount), t.description,
      IF t.category_id = None THEN <<>> ELSE StrInt(t.category_id[1]), t.type>>

export_to_csv_Unfiltered(db, filename, category_id, start_date, end_date) ==
    LET rows == list_transactions(db, None, None, None)
    IN  <<CsvHeader>> \o [i \in 1..Len(rows) |-> CsvRow(rows[i])]

\* the lines of the file written: writerow(header), writerows(rows)
export_to_csv(db, filename, category_id, start_date, end_date) ==
    LET rows == list_transactions(db, category_id, start_date, end_date)
    IN  <<CsvHeader>> \o [i \in 1..Len(rows) |-> CsvRow(rows[i])]

(***************************************************************************)
(* What the user types, and how the flows read it                          *)
(***************************************************************************)
\* prompt(): input(text).strip()
Prompt(typed) == Strip(typed)

\* int(s) of a stripped string: an optional sign and decimal digits, else ValueError
Unsigned(s) == IF s # <<>> /\ s[1] \in {43, DASH} THEN Tail(s) ELSE s

IntOk(s) == Unsigned(s) # <<>> /\ AllDigits(Unsigned(s))

IntOf(s) ==
    IF s[1] = DASH THEN 0 - DigitsValue(Unsigned(s)) ELSE DigitsValue(Unsigned(s))

\* float(s): "nan", and the literals of an optional sign, digits and at most two
\* decimals, are the floats among the inputs; anything else there is a ValueError
TextNan == <<110, 97, 110>>

DotPositions(s) == {i \in 1..Len(s) : s[i] = DOT}

WholePart(s) == SubSeq(Unsigned(s), 1, (CHOOSE i \in DotPositions(Unsigned(s)) : TRUE) - 1)

DecimalPart(s) ==
    SubSeq(Unsigned(s), (CHOOSE i \in DotPositions(Unsigned(s)) : TRUE) + 1, Len(Unsigned(s)))

DecimalOk(s) ==
    /\ Cardinality(DotPositions(s)) = 1
    /\ WholePart(s) # <<>> /\ AllDigits(WholePart(s))
    /\ Len(DecimalPart(s)) \in {1, 2} /\ AllDigits(DecimalPart(s))

FloatOk(s) == s = TextNan \/ IntOk(s) \/ DecimalOk(s)

Magnitude(s) ==
    IF IntOk(s) THEN 100 * DigitsValue(Unsigned(s))
    ELSE 100 * DigitsValue(WholePart(s)) +
            (IF Len(DecimalPart(s)) = 1 THEN 10 ELSE 1) * DigitsValue(DecimalPart(s))

FloatOf(s) ==
    IF s = TextNan THEN NaN
    ELSE Some(IF s[1] = DASH THEN 0 - Magnitude(s) ELSE Magnitude(s))

\* abs(amount) taken as the amount itself
Abs_Identity(x) == x

Abs(x) == IF x = NaN THEN NaN ELSE Some(IF x[1] < 0 THEN 0 - x[1] ELSE x[1])

TypeOfSign_Strict(amount) == IF amount # NaN /\ amount[1] > 0 THEN "income" ELSE "expense"

\* "income" if amount >= 0 else "expense": every comparison with NaN is false
TypeOfSign(amount) == IF amount # NaN /\ amount[1] >= 0 THEN "income" ELSE "expense"

Unpadded(y, m, d) == StrInt(y) \o <<DASH>> \o StrInt(m) \o <<DASH>> \o StrInt(d)

\* "Food", "food", "Groceries"
Food == <<70, 111, 111, 100>>

LowerFood == <<102, 111, 111, 100>>

Groceries == <<71, 114, 111, 99, 101, 114, 105, 101, 115>>

TypedNames == {Food, <<SP>> \o Food \o <<SP>>, LowerFood, <<>>}

TypedCategoryIds == {StrInt(i) : i \in 1..MaxCategories} \cup {<<120>>}

TypedTransactionIds == {StrInt(i) : i \in 1..MaxTransactions} \cup {<<120>>}

TypedDates ==
    {Isoformat(<<2024, 12, 31>>), Unpadded(2025, 1, 1), Isoformat(<<2024, 3, 15>>),
     Isoformat(<<2024, 2, 30>>)}

\* "-42.50", "0", "3", "nan", "x"
TypedAmounts == {<<DASH, 52, 50, DOT, 53, 48>>, StrInt(0), StrInt(3), TextNan, <<120>>}

TypedDescriptions == {Groceries}

TypedCategoryChoices == {<<>>, StrInt(1), StrInt(2), <<120>>}

TypedCategoryFilters == {<<>>, StrInt(0), StrInt(1)}

TypedStartDates == {<<>>, Isoformat(<<2025, 1, 1>>), Unpadded(2025, 1, 1), <<120>>}

TypedEndDates == {<<>>, Isoformat(<<2024, 12, 31>>)}

TypedYears == {StrInt(2024), StrInt(2025), <<120>>}

TypedMonths == {StrInt(12), StrInt(1), StrInt(3), StrInt(13)}

TypedFilenames == {<<>>, <<111>>}

(***************************************************************************)
(* State: the store, the connection, and what the last operation did       *)
(***************************************************************************)
File == Store(categories, transactions, sqlite_sequence)

\* what the connection reads: the file with its own pending changes
DB == IF journal = None THEN File ELSE journal[1]

\* the methods that end with self.conn.commit()
Commits(op) == op \in {"add_category", "delete_category", "add_transaction", "delete_transaction"}

WithinBounds(db) ==
    /\ db.sqlite_sequence.categories <= MaxCategories
    /\ db.sqlite_sequence.transactions <= MaxTransactions

\* the flow that ran, what it read and printed, the exception that left it, and
\* the store operation it made: its arguments, exception, return value, the file
\* it wrote, and the store it started from
Observation(flow, input, printed, escaped, op, args, raised, returned, file) ==
    [flow |-> flow, input |-> input, printed |-> printed, escaped |-> escaped,
     op |-> op, args |-> args, raised |-> raised, returned |-> returned, file |-> file,
     before |-> DB]

\* nothing observed: main() is at its menu prompt
AtMenu ==
    [flow |-> "", input |-> <<>>, printed |-> "", escaped |-> "",
     op |-> "", args |-> <<>>, raised |-> "", returned |-> None, file |-> <<>>,
     before |-> EmptyStore]

NoCall(flow, input, printed) ==
    /\ last' = Observation(flow, input, printed, "", "", <<>>, "", None, <<>>)
    /\ UNCHANGED <<categories, transactions, sqlite_sequence, conn, foreign_keys, journal>>

\* a method of BudgetDB called and returned: its statement runs in the connection's
\* transaction, and a method that writes commits unless the statement raised.  An
\* exception no flow catches leaves main() through its finally, db.close(), which
\* drops what was not committed
Call(flow, input, printed, escaped, op, args, o, file) ==
    /\ WithinBounds(o.db)
    /\ \E pending \in {IF o.db = File THEN None ELSE Some(o.db)} :
       \E c \in {IF Commits(op) /\ o.raised = "" THEN commit(File, pending)
                 ELSE [file |-> File, journal |-> pending]} :
        /\ categories' = c.file.categories
        /\ transactions' = c.file.transactions
        /\ sqlite_sequence' = c.file.sqlite_sequence
        /\ journal' = IF escaped = "" THEN c.journal ELSE None
    /\ conn' = IF escaped = "" THEN conn ELSE "closed"
    /\ foreign_keys' = IF escaped = "" THEN foreign_keys ELSE FALSE
    /\ last' = Observation(flow, input, printed, escaped, op, args, o.raised, o.returned, file)

\* BudgetDB() of a new connection to the file, as main() and any caller makes it
Open(flow) ==
    /\ conn = "closed"
    /\ conn' = "open"
    /\ \E c \in {__init__(File)} :
        /\ foreign_keys' = c.foreign_keys
        /\ categories' = c.db.categories
        /\ transactions' = c.db.transactions
        /\ sqlite_sequence' = c.db.sqlite_sequence
    /\ journal' = None
    /\ last' = Observation(flow, <<>>, "", "", "__init__", <<>>, "", None, <<>>)

\* db.close(): the connection goes, and with it what it had not committed
Close(flow, printed) ==
    /\ conn' = "closed"
    /\ foreign_keys' = FALSE
    /\ journal' = None
    /\ last' = Observation(flow, <<>>, printed, "", "close", <<>>, "", None, <<>>)
    /\ UNCHANGED <<categories, transactions, sqlite_sequence>>

\* python budget_tracker.py with no budget.db: main() has made BudgetDB()
Init ==
    \E c \in {__init__(NewFile)} :
        /\ categories = c.db.categories
        /\ transactions = c.db.transactions
        /\ sqlite_sequence = c.db.sqlite_sequence
        /\ foreign_keys = c.foreign_keys
        /\ conn = "open"
        /\ journal = None
        /\ last = AtMenu

(***************************************************************************)
(* The menu flows of main(): one action each, the store call included.     *)
(* A flow reads its prompts in order and stops at the first it rejects.    *)
(***************************************************************************)
Choosing == conn = "open" /\ last.flow = ""

add_category_flow ==
    /\ Choosing
    /\ \E typed \in TypedNames : \E name \in {Prompt(typed)} :
        IF name = <<>>
        THEN NoCall("add_category_flow", <<name>>, "Category name cannot be empty.")
        ELSE \E o \in {add_category(DB, name)} :
                Call("add_category_flow", <<name>>,
                     IF o.raised = IntegrityError THEN "already exists" ELSE "added",
                     "", "add_category", <<name>>, o, <<>>)

delete_category_flow ==
    /\ Choosing
    /\ \E typed \in TypedCategoryIds : \E text \in {Prompt(typed)} :
        IF ~IntOk(text)
        THEN NoCall("delete_category_flow", <<text>>, "Invalid ID.")
        ELSE \E o \in {delete_category(DB, IntOf(text))} :
                Call("delete_category_flow", <<text>>,
                     IF o.returned THEN "deleted" ELSE "not found",
                     "", "delete_category", <<IntOf(text)>>, o, <<>>)

\* the part of add_transaction_flow after the date and the amount were accepted
SaveTransaction(date_str, date_iso, amount_str, description, cat_input) ==
    \E amount \in {FloatOf(amount_str)} :
    \E category_id \in {IF cat_input # <<>> THEN Some(IntOf(cat_input)) ELSE None} :
    \E o \in {add_transaction(DB, date_iso, Abs(amount), description, category_id,
                              TypeOfSign(amount))} :
        Call("add_transaction_flow", <<date_str, amount_str, description, cat_input>>,
             IF o.raised = "" THEN "recorded" ELSE "",
             o.raised, "add_transaction",
             <<date_iso, Abs(amount), description, category_id, TypeOfSign(amount)>>, o, <<>>)

add_transaction_flow ==
    /\ Choosing
    /\ \E typedDate \in TypedDates : \E date_str \in {Prompt(typedDate)} :
        IF ~StrptimeOk(date_str)
        THEN NoCall("add_transaction_flow", <<date_str>>, "Invalid date format. Use YYYY-MM-DD.")
        ELSE \E date_iso \in {Isoformat(Strptime(date_str))} :
             \E typedAmount \in TypedAmounts : \E amount_str \in {Prompt(typedAmount)} :
                IF ~FloatOk(amount_str)
                THEN NoCall("add_transaction_flow", <<date_str, amount_str>>,
                            "Amount must be a number.")
                ELSE \E typedDescription \in TypedDescriptions, typedCategory \in TypedCategoryChoices :
                     \E description \in {Prompt(typedDescription)}, cat_input \in {Prompt(typedCategory)} :
                        IF cat_input # <<>> /\ ~IntOk(cat_input)
                        THEN NoCall("add_transaction_flow",
                                    <<date_str, amount_str, description, cat_input>>,
                                    "Invalid category ID. Transaction not saved.")
                        ELSE SaveTransaction(date_str, date_iso, amount_str, description, cat_input)

delete_transaction_flow ==
    /\ Choosing
    /\ \E typed \in TypedTransactionIds : \E text \in {Prompt(typed)} :
        IF ~IntOk(text)
        THEN NoCall("delete_transaction_flow", <<text>>, "Invalid ID.")
        ELSE \E o \in {delete_transaction(DB, IntOf(text))} :
                Call("delete_transaction_flow", <<text>>,
                     IF o.returned THEN "deleted" ELSE "not found",
                     "", "delete_transaction", <<IntOf(text)>>, o, <<>>)

\* prompt(...) or None
OrNone(text) == IF text = <<>> THEN None ELSE Some(text)

\* the filter prompts list_transactions_flow and export_csv_flow share: a category
\* that is no number is dropped with a message, a date that does not parse ends the flow
FilterCategory(cat_input) ==
    IF cat_input # <<>> /\ IntOk(cat_input) THEN Some(IntOf(cat_input)) ELSE None

FilterDatesOk(start, end) ==
    /\ TruthyStr(start) => StrptimeOk(start[1])
    /\ TruthyStr(end) => StrptimeOk(end[1])

list_transactions_flow ==
    /\ Choosing
    /\ \E typedCategory \in TypedCategoryFilters, typedStart \in TypedStartDates,
          typedEnd \in TypedEndDates :
       \E cat_input \in {Prompt(typedCategory)}, start \in {OrNone(Prompt(typedStart))},
          end \in {OrNone(Prompt(typedEnd))} :
        IF ~FilterDatesOk(start, end)
        THEN NoCall("list_transactions_flow", <<cat_input, start, end>>,
                    "Invalid date format. Use YYYY-MM-DD.")
        ELSE \E rows \in {list_transactions(DB, FilterCategory(cat_input), start, end)} :
                Call("list_transactions_flow", <<cat_input, start, end>>,
                     IF rows = <<>> THEN "No transactions found." ELSE "rows",
                     "", "list_transactions", <<FilterCategory(cat_input), start, end>>,
                     Outcome(DB, "", rows), <<>>)

monthly_summary_flow ==
    /\ Choosing
    /\ \E typedYear \in TypedYears : \E year_str \in {Prompt(typedYear)} :
        IF ~IntOk(year_str)
        THEN NoCall("monthly_summary_flow", <<year_str>>, "Invalid year or month.")
        ELSE \E typedMonth \in TypedMonths : \E month_str \in {Prompt(typedMonth)} :
                IF ~IntOk(month_str) \/ IntOf(month_str) < 1 \/ IntOf(month_str) > 12
                THEN NoCall("monthly_summary_flow", <<year_str, month_str>>,
                            "Invalid year or month.")
                ELSE \E summary \in {monthly_summary(DB, IntOf(year_str), IntOf(month_str))} :
                        Call("monthly_summary_flow", <<year_str, month_str>>,
                             IF summary = <<>>
                             THEN "No transactions found for the given month."
                             ELSE "Summary",
                             "", "monthly_summary", <<IntOf(year_str), IntOf(month_str)>>,
                             Outcome(DB, "", summary), <<>>)

export_csv_flow ==
    /\ Choosing
    /\ \E typedFilename \in TypedFilenames : \E filename \in {Prompt(typedFilename)} :
        IF filename = <<>>
        THEN NoCall("export_csv_flow", <<filename>>, "Filename cannot be empty.")
        ELSE \E typedCategory \in TypedCategoryFilters, typedStart \in TypedStartDates,
                typedEnd \in TypedEndDates :
             \E cat_input \in {Prompt(typedCategory)}, start \in {OrNone(Prompt(typedStart))},
                end \in {OrNone(Prompt(typedEnd))} :
                IF ~FilterDatesOk(start, end)
                THEN NoCall("export_csv_flow", <<filename, cat_input, start, end>>,
                            "Invalid date format. Use YYYY-MM-DD.")
                ELSE Call("export_csv_flow", <<filename, cat_input, start, end>>,
                          "exported", "", "export_to_csv",
                          <<filename, FilterCategory(cat_input), start, end>>,
                          Outcome(DB, "", None),
                          export_to_csv(DB, filename, FilterCategory(cat_input), start, end))

\* the flow has returned: main() loops, prints the menu and prompts again
menu ==
    /\ conn = "open"
    /\ last.flow # ""
    /\ last' = AtMenu
    /\ UNCHANGED <<categories, transactions, sqlite_sequence, conn, foreign_keys, journal>>

\* choice "8", or Ctrl+C at a prompt: the loop ends and finally closes the connection
exit ==
    /\ Choosing
    /\ Close("exit", "Goodbye!")

\* python budget_tracker.py again: BudgetDB() opens budget.db and runs the schema script
main == Open("main")

Next ==
    \/ add_category_flow
    \/ delete_category_flow
    \/ add_transaction_flow
    \/ delete_transaction_flow
    \/ list_transactions_flow
    \/ monthly_summary_flow
    \/ export_csv_flow
    \/ menu
    \/ exit
    \/ main

Spec == Init /\ [][Next]_vars

(***************************************************************************)
(* BudgetDB driven by a caller of its methods, with arguments no flow      *)
(* would pass: untrimmed names, dates as given, signed amounts, any type   *)
(***************************************************************************)
ArgNames == {<<SP, 97>>, <<97>>, <<65>>, <<>>}

ArgCategoryIds == 0..MaxCategories

ArgTransactionIds == 0..MaxTransactions

ArgDates == {Isoformat(<<2024, 12, 31>>), Unpadded(2025, 1, 1), <<120>>}

ArgAmounts == {Some(0 - 200), Some(300), NaN}

ArgTypes == {"income", "expense", "other"}

ArgDescriptions == {<<103, SP>>}

ArgCategoryRefs == {None, Some(1)}

ArgCategoryFilters == {None, Some(0), Some(1)}

ArgStartDates == {Some(<<>>), Some(Isoformat(<<2025, 1, 1>>))}

ArgEndDates == {None, Some(Isoformat(<<2024, 12, 31>>))}

ArgMonths == {<<2024, 12>>, <<2025, 1>>}

Connected == conn = "open" /\ last.flow = ""

Direct(op, args, o, file) == Call("caller", <<>>, "", "", op, args, o, file)

call_add_category ==
    /\ Connected
    /\ \E name \in ArgNames : \E o \in {add_category(DB, name)} :
        Direct("add_category", <<name>>, o, <<>>)

call_delete_category ==
    /\ Connected
    /\ \E id \in ArgCategoryIds : \E o \in {delete_category(DB, id)} :
        Direct("delete_category", <<id>>, o, <<>>)

call_list_categories ==
    /\ Connected
    /\ Direct("list_categories", <<>>, Outcome(DB, "", list_categories(DB)), <<>>)

call_add_transaction ==
    /\ Connected
    /\ \E date \in ArgDates, amount \in ArgAmounts, description \in ArgDescriptions,
          category_id \in ArgCategoryRefs, txn_type \in ArgTypes :
       \E o \in {add_transaction(DB, date, amount, description, category_id, txn_type)} :
        Direct("add_transaction", <<date, amount, description, category_id, txn_type>>, o, <<>>)

call_delete_transaction ==
    /\ Connected
    /\ \E id \in ArgTransactionIds : \E o \in {delete_transaction(DB, id)} :
        Direct("delete_transaction", <<id>>, o, <<>>)

call_list_transactions ==
    /\ Connected
    /\ \E category_id \in ArgCategoryFilters, start \in ArgStartDates, end \in ArgEndDates :
        Direct("list_transactions", <<category_id, start, end>>,
               Outcome(DB, "", list_transactions(DB, category_id, start, end)), <<>>)

call_monthly_summary ==
    /\ Connected
    /\ \E ym \in ArgMonths :
        Direct("monthly_summary", ym, Outcome(DB, "", monthly_summary(DB, ym[1], ym[2])), <<>>)

call_export_to_csv ==
    /\ Connected
    /\ \E category_id \in ArgCategoryFilters, start \in ArgStartDates, end \in ArgEndDates :
        Direct("export_to_csv", <<<<111>>, category_id, start, end>>, Outcome(DB, "", None),
               export_to_csv(DB, <<111>>, category_id, start, end))

\* the caller has the result and goes on
return ==
    /\ conn = "open"
    /\ last.flow # ""
    /\ last' = AtMenu
    /\ UNCHANGED <<categories, transactions, sqlite_sequence, conn, foreign_keys, journal>>

\* BudgetDB.close()
close ==
    /\ Connected
    /\ Close("caller", "")

\* BudgetDB(filename) on the same file
connect == Open("caller")

NextDB ==
    \/ call_add_category
    \/ call_delete_category
    \/ call_list_categories
    \/ call_add_transaction
    \/ call_delete_transaction
    \/ call_list_transactions
    \/ call_monthly_summary
    \/ call_export_to_csv
    \/ return
    \/ close
    \/ connect

SpecDB == Init /\ [][NextDB]_vars

(***************************************************************************)
(* Properties                                                              *)
(***************************************************************************)
Names(cats) == {c.name : c \in cats}

Occurrences(listing, name) == Cardinality({i \in 1..Len(listing) : listing[i].name = name})

\* C1: after add_category(name) succeeds, list_categories holds that name exactly
\* once; add_category of a name a category already has raises the duplicate error
\* (IntegrityError) and leaves the categories, ids and names, as they were
C1_AddCategoryOnceDuplicateRefused ==
    last.op = "add_category" =>
        /\ last.raised = "" => Occurrences(list_categories(DB), last.args[1]) = 1
        /\ last.args[1] \in Names(last.before.categories) =>
              /\ last.raised = IntegrityError
              /\ categories = last.before.categories
        /\ last.raised # "" => categories = last.before.categories

\* a second add_category of the same name was refused
C1_Witness ==
    /\ last.op = "add_category"
    /\ last.raised = IntegrityError
    /\ last.args[1] \in Names(categories)
    /\ Occurrences(list_categories(DB), last.args[1]) = 1

\* C2: after delete_category(c) returns True, every transaction that referenced c
\* is still listed by list_transactions(), now with category_id None, and there
\* are as many transaction rows as before
C2_DeleteCategoryKeepsTransactions ==
    (last.op = "delete_category" /\ last.returned) =>
        LET rows == list_transactions(DB, None, None, None)
        IN  /\ Len(rows) = Cardinality(last.before.transactions)
            /\ \A t \in last.before.transactions :
                  t.category_id = Some(last.args[1]) =>
                      \E i \in 1..Len(rows) : rows[i] = [t EXCEPT !.category_id = None]

\* a category that transactions referenced has been deleted
C2_Witness ==
    /\ last.op = "delete_category"
    /\ last.returned
    /\ \E t \in last.before.transactions : t.category_id = Some(last.args[1])

\* C3: in every state each stored transaction's category_id is None or the id of
\* a category that exists; delete_category removes the category and clears the
\* references in one step
C3_ReferentialIntegrity ==
    \A t \in transactions :
        t.category_id = None \/ \E c \in categories : c.id = t.category_id[1]

\* add_transaction was refused a category id that names no category, while other
\* transactions reference the categories that exist
C3_Witness ==
    /\ last.op = "add_transaction"
    /\ last.raised = IntegrityError
    /\ last.args[2] # NaN
    /\ last.args[4] # None
    /\ \A c \in categories : c.id # last.args[4][1]
    /\ \E t \in transactions : t.category_id # None

YearMonth(t) == <<Strptime(t.date)[1], Strptime(t.date)[2]>>

\* C4: whenever a monthly summary is taken, each stored transaction is counted by
\* monthly_summary(y, m), m in 1..12, for exactly the one pair (y, m) that is the
\* year and month of its date: one dated y-12-31 only by (y, 12), one dated
\* (y+1)-01-01 only by (y+1, 1); the summary taken has rows exactly when a
\* transaction is dated in its month
C4_OneMonthPerTransaction ==
    last.op = "monthly_summary" =>
        /\ \A t \in transactions :
              \E ym \in {YearMonth(t)} :
                  /\ ym[1] \in 2024..2025
                  /\ \A y \in 2024..2025, m \in 1..12 :
                        InMonth(t, y, m) <=> (y = ym[1] /\ m = ym[2])
        /\ last.returned # <<>> <=> \E t \in transactions : YearMonth(t) = last.args

\* the December summary was taken of a store holding a transaction of 31 December
\* and one of 1 January, and has one row
C4_Witness ==
    /\ last.op = "monthly_summary"
    /\ last.args = <<2024, 12>>
    /\ \E t \in transactions : t.date = Isoformat(<<2024, 12, 31>>)
    /\ \E t \in transactions : t.date = Isoformat(<<2025, 1, 1>>)
    /\ Len(last.returned) = 1

\* C5: the file export_to_csv writes is the header ID,Date,Amount,Description,
\* CategoryID,Type and then one line per row of list_transactions under the same
\* filters, in its order, with its values (the raw category_id, the raw amount);
\* with no row selected the file is the header alone
C5_ExportMatchesListing ==
    last.op = "export_to_csv" =>
        LET rows == list_transactions(DB, last.args[2], last.args[3], last.args[4])
        IN  /\ last.file[1] = <<"ID", "Date", "Amount", "Description", "CategoryID", "Type">>
            /\ Len(last.file) = Len(rows) + 1
            /\ \A i \in 1..Len(rows) :
                  /\ last.file[i + 1][1] = StrInt(rows[i].id)
                  /\ last.file[i + 1][2] = rows[i].date
                  /\ last.file[i + 1][3] = StrFloat(rows[i].amount)
                  /\ last.file[i + 1][4] = rows[i].description
                  /\ last.file[i + 1][5] =
                        (IF rows[i].category_id = None THEN <<>> ELSE StrInt(rows[i].category_id[1]))
                  /\ last.file[i + 1][6] = rows[i].type
            /\ rows = <<>> => Len(last.file) = 1

\* an export under a category filter wrote one of two stored transactions
C5_Witness ==
    /\ last.op = "export_to_csv"
    /\ TruthyInt(last.args[2])
    /\ Cardinality(transactions) = 2
    /\ Len(last.file) = 2

Rows(seq) == {seq[i] : i \in 1..Len(seq)}

\* C6: list_transactions returns exactly the stored transactions that satisfy every
\* filter supplied (category_id equal, date >= start_date, date <= end_date, the
\* dates compared as the ISO text stored), an omitted filter restricting nothing
C6_ListReturnsExactlyTheMatching ==
    last.op = "list_transactions" =>
        /\ Rows(last.returned) =
              {t \in transactions :
                  /\ last.args[1] # None => t.category_id = last.args[1]
                  /\ last.args[2] # None => TextLeq(last.args[2][1], t.date)
                  /\ last.args[3] # None => TextLeq(t.date, last.args[3][1])}
        /\ Len(last.returned) = Cardinality(Rows(last.returned))
        /\ (last.args = <<None, None, None>>) => Rows(last.returned) = transactions

\* a calendar date <<y, m, d>> later than another
Later(d, e) ==
    \/ d[1] > e[1]
    \/ d[1] = e[1] /\ d[2] > e[2]
    \/ d[1] = e[1] /\ d[2] = e[2] /\ d[3] > e[3]

\* C7: under every filter combination the rows list_transactions returns are in
\* descending order of date, and rows of one date in descending order of id
C7_ListOrderedByDateThenId ==
    last.op = "list_transactions" =>
        \A i \in 1..Len(last.returned), j \in 1..Len(last.returned) :
            i < j =>
                \/ Later(Strptime(last.returned[i].date), Strptime(last.returned[j].date))
                \/ /\ Strptime(last.returned[i].date) = Strptime(last.returned[j].date)
                   /\ last.returned[i].id > last.returned[j].id

\* two transactions of one date were listed
C7_Witness ==
    /\ last.op = "list_transactions"
    /\ Len(last.returned) = 2
    /\ last.returned[1].date = last.returned[2].date
    /\ last.returned[1].id = 2

\* C8: in every state of the store each stored transaction has amount >= 0 and
\* type income or expense, whatever amount and type add_transaction was passed
C8_AmountNonNegativeTypeValid ==
    \A t \in transactions : t.amount >= 0 /\ t.type \in {"income", "expense"}

\* C9: a transaction the add-transaction flow stores for the signed amount v
\* entered has type income if v >= 0 (v = 0 included), type expense if v < 0,
\* and amount |v|
C9_SignBecomesType ==
    (last.flow = "add_transaction_flow" /\ last.op = "add_transaction" /\ last.raised = "") =>
        \E v \in {FloatOf(last.input[2])[1]} :
        \E t \in transactions :
            /\ t.id = last.returned[1]
            /\ t \notin last.before.transactions
            /\ t.type = (IF v >= 0 THEN "income" ELSE "expense")
            /\ t.amount = (IF v < 0 THEN 0 - v ELSE v)

\* the amount 0 was entered and stored
C9_Witness ==
    /\ last.flow = "add_transaction_flow"
    /\ last.op = "add_transaction"
    /\ last.raised = ""
    /\ FloatOf(last.input[2]) = Some(0)
    /\ \E t \in transactions : t.id = last.returned[1] /\ t.type = "income" /\ t.amount = 0

\* C10: delete_category(id) and delete_transaction(id) return True exactly when a
\* row of that id existed, and that row is then gone; for an unknown id they
\* return False, raise nothing and leave categories and transactions unchanged
C10_DeleteReportsRemoval ==
    /\ last.op = "delete_category" =>
          /\ last.raised = ""
          /\ last.returned <=> \E c \in last.before.categories : c.id = last.args[1]
          /\ \A c \in categories : c.id # last.args[1]
          /\ ~last.returned =>
                categories = last.before.categories /\ transactions = last.before.transactions
    /\ last.op = "delete_transaction" =>
          /\ last.raised = ""
          /\ last.returned <=> \E t \in last.before.transactions : t.id = last.args[1]
          /\ \A t \in transactions : t.id # last.args[1]
          /\ ~last.returned =>
                categories = last.before.categories /\ transactions = last.before.transactions

\* a transaction id that names no row was given to a store that holds rows
C10_Witness ==
    /\ last.op = "delete_transaction"
    /\ ~last.returned
    /\ transactions # {}
    /\ categories # {}
    /\ transactions = last.before.transactions

\* the name a transaction's category_id resolves to, None when it has no category
ResolvedName(t) ==
    IF t.category_id # None /\ \E c \in categories : c.id = t.category_id[1]
    THEN Some((CHOOSE c \in categories : c.id = t.category_id[1]).name)
    ELSE None

RECURSIVE AmountTotal(_)
AmountTotal(S) ==
    IF S = {} THEN 0
    ELSE LET t == CHOOSE x \in S : TRUE IN t.amount + AmountTotal(S \ {t})

\* C11: monthly_summary(year, month) has one row per resolved category name among
\* the transactions dated in the month, the transactions without a category (never
\* set, or cleared by a deletion) all in the one row named None; a row's
\* income_total is the sum of amount over its income transactions, its
\* expense_total the sum over its expense transactions, 0 where it has none
C11_SummaryGroupsByResolvedName ==
    last.op = "monthly_summary" =>
        LET dated == {t \in transactions : YearMonth(t) = last.args}
            names == {ResolvedName(t) : t \in dated}
            summary == last.returned
        IN  /\ Len(summary) = Cardinality(names)
            /\ {summary[i].name : i \in 1..Len(summary)} = names
            /\ Cardinality({i \in 1..Len(summary) : summary[i].name = None}) <= 1
            /\ \A i \in 1..Len(summary) :
                  LET group == {t \in dated : ResolvedName(t) = summary[i].name}
                  IN  /\ summary[i].income_total =
                            AmountTotal({t \in group : t.type = "income"})
                      /\ summary[i].expense_total =
                            AmountTotal({t \in group : t.type = "expense"})
                      /\ (\A t \in group : t.type # "income") => summary[i].income_total = 0
                      /\ (\A t \in group : t.type # "expense") => summary[i].expense_total = 0

\* after every category was deleted, a summary has the single row None, with an
\* income and an expense in it
C11_Witness ==
    /\ last.op = "monthly_summary"
    /\ categories = {}
    /\ sqlite_sequence.categories >= 1
    /\ Cardinality(transactions) = 2
    /\ Len(last.returned) = 1
    /\ last.returned[1].name = None
    /\ last.returned[1].income_total > 0
    /\ last.returned[1].expense_total > 0

\* C12: monthly_summary has a row for a category only if a transaction of that
\* category is dated in the month: a category without one gets no zero-filled row;
\* with no transaction in the month it returns the empty sequence and raises nothing
C12_NoRowWithoutTransaction ==
    last.op = "monthly_summary" =>
        LET dated == {t \in transactions : YearMonth(t) = last.args}
        IN  /\ \A i \in 1..Len(last.returned) :
                  \E t \in dated : ResolvedName(t) = last.returned[i].name
            /\ \A c \in categories :
                  (\A t \in dated : t.category_id # Some(c.id)) =>
                      \A i \in 1..Len(last.returned) : last.returned[i].name # Some(c.name)
            /\ dated = {} => (last.returned = <<>> /\ last.raised = "")

\* of two categories that both have transactions, the summary of a month has a row
\* for the one with a transaction in that month only
C12_Witness ==
    /\ last.op = "monthly_summary"
    /\ Cardinality(categories) = 2
    /\ Len(last.returned) = 1
    /\ last.returned[1].name # None
    /\ \E t \in transactions : t.category_id # None /\ YearMonth(t) # last.args

\* an id was handed out in this step by op, for the table whose rows and counter
\* before the step are given
HandedOut(op, rows, seq, seqAfter) ==
    (last'.op = op /\ last'.raised = "" /\ last.flow = "") =>
        /\ last'.returned[1] > seq
        /\ \A r \in rows : last'.returned[1] > r.id
        /\ seqAfter = last'.returned[1]

\* C13: over every sequence of flows, close and reopen included, the ids that
\* add_category returns are strictly increasing, and so are those of
\* add_transaction: each id returned is larger than the table's counter, which holds
\* the largest id returned before, no step lowers the counter, and no row has an id
\* above it; so an id is not assigned twice, also after its row, the row of the
\* highest id included, was deleted
C13_IdsNeverReused ==
    /\ [](/\ \A c \in categories : c.id <= sqlite_sequence.categories
          /\ \A t \in transactions : t.id <= sqlite_sequence.transactions)
    /\ [][/\ sqlite_sequence'.categories >= sqlite_sequence.categories
          /\ sqlite_sequence'.transactions >= sqlite_sequence.transactions
          /\ HandedOut("add_category", categories, sqlite_sequence.categories,
                       sqlite_sequence'.categories)
          /\ HandedOut("add_transaction", transactions, sqlite_sequence.transactions,
                       sqlite_sequence'.transactions)]_vars

\* the only transaction, of id 1, was deleted, and the next one got id 2
C13_Witness ==
    /\ last.op = "add_transaction"
    /\ last.raised = ""
    /\ last.before.transactions = {}
    /\ last.before.sqlite_sequence.transactions = 1
    /\ last.returned = Some(2)

\* C14: add_transaction given a date string that is no calendar date YYYY-MM-DD
\* fails before the store is touched, no row added and the store unchanged, so that
\* every stored transaction's date is a valid ISO calendar date
C14_InvalidDateRefused ==
    /\ (last.op = "add_transaction" /\ ~StrptimeOk(last.args[1])) =>
          /\ last.raised # ""
          /\ transactions = last.before.transactions
    /\ \A t \in transactions :
          StrptimeOk(t.date) /\ Isoformat(Strptime(t.date)) = t.date

\* C15: the schema script run again on a store that holds categories and
\* transactions leaves the tables there are, every category row and every
\* transaction row as they were
C15_SchemaInitializationIdempotent ==
    /\ _initialize_schema(DB) = DB
    /\ DOMAIN _initialize_schema(DB) = DOMAIN DB
    /\ _initialize_schema(_initialize_schema(NewFile)) = _initialize_schema(NewFile)
    /\ last.op = "__init__" =>
          /\ categories = last.before.categories
          /\ transactions = last.before.transactions
          /\ sqlite_sequence = last.before.sqlite_sequence

\* BudgetDB() was made again on a file that holds categories and transactions
C15_Witness ==
    /\ last.op = "__init__"
    /\ last.before.categories # {}
    /\ last.before.transactions # {}
    /\ categories # {}
    /\ transactions # {}

\* C16: every write is committed when its method returns, so nothing is pending in
\* any state; once the connection is closed the file lists the categories and the
\* transactions the connection listed before, and so does the store opened again
\* on the file, in which deleting a category still clears the references to it
C16_CommittedBeforeReturn ==
    /\ journal = None
    /\ (conn = "closed" \/ last.op = "__init__") =>
          /\ list_categories(DB) = list_categories(last.before)
          /\ list_transactions(DB, None, None, None) =
                list_transactions(last.before, None, None, None)
    /\ last.op = "__init__" =>
          /\ foreign_keys
          /\ \A c \in categories :
                \E o \in {delete_category(DB, c.id)} :
                    /\ Cardinality(o.db.transactions) = Cardinality(transactions)
                    /\ \A t \in o.db.transactions : t.category_id # Some(c.id)

\* the store was opened again on a file in which a transaction references a category
C16_Witness ==
    /\ last.op = "__init__"
    /\ conn = "open"
    /\ \E t \in transactions : \E c \in categories : t.category_id = Some(c.id)

\* C17: over every operation, a transaction that stays stored keeps its id, date,
\* amount, description and type, and its category_id changes only from c to None
\* and only by delete_category(c); add_category, listings, summaries and exports
\* leave the transactions as they were, add_transaction keeps all there were, and
\* delete_transaction removes the one of its id and nothing else
C17_TransactionsNeverEdited ==
    last.flow # "" =>
        /\ \A t \in last.before.transactions : \A u \in transactions :
              u.id = t.id =>
                  /\ u.date = t.date
                  /\ u.amount = t.amount
                  /\ u.description = t.description
                  /\ u.type = t.type
                  /\ u.category_id # t.category_id =>
                        /\ last.op = "delete_category"
                        /\ t.category_id = Some(last.args[1])
                        /\ u.category_id = None
        /\ last.op \notin {"delete_category", "delete_transaction", "add_transaction"} =>
              transactions = last.before.transactions
        /\ last.op = "add_transaction" => last.before.transactions \subseteq transactions
        /\ last.op = "delete_transaction" =>
              transactions = {t \in last.before.transactions : t.id # last.args[1]}

\* a category was deleted that one transaction referenced, while another
\* transaction references another category
C17_Witness ==
    /\ last.op = "delete_category"
    /\ last.returned
    /\ \E t \in last.before.transactions : t.category_id = Some(last.args[1])
    /\ \E t \in transactions : t.category_id # None

\* the scenario: category Food, and a transaction of 2024-03-15, -42.50, Groceries
ScenarioCategory == [id |-> 1, name |-> Food]

ScenarioTransaction ==
    [id |-> 1, date |-> Isoformat(<<2024, 3, 15>>), amount |-> 4250,
     description |-> Groceries, category_id |-> Some(1), type |-> "expense"]

ScenarioStored ==
    Store({ScenarioCategory}, {ScenarioTransaction}, [categories |-> 1, transactions |-> 1])

ScenarioCleared ==
    Store({}, {[ScenarioTransaction EXCEPT !.category_id = None]},
          [categories |-> 1, transactions |-> 1])

\* C18: from the empty store, adding category Food gives it id 1; the add-transaction
\* flow given 2024-03-15, -42.50, Groceries and category 1 stores amount 42.50, type
\* expense, category_id 1; monthly_summary(2024, 3) is then the one row (Food, 0,
\* 42.50); after delete_category(1), list_transactions() returns the transaction
\* with category_id None and monthly_summary(2024, 3) is the one row (None, 0, 42.50)
C18_Scenario ==
    /\ (last.op = "add_category" /\ last.before = EmptyStore /\ last.args = <<Food>>) =>
          /\ last.returned = Some(1)
          /\ categories = {ScenarioCategory}
    /\ (/\ last.flow = "add_transaction_flow"
        /\ last.before = Store({ScenarioCategory}, {}, [categories |-> 1, transactions |-> 0])
        /\ last.input = <<Isoformat(<<2024, 3, 15>>), <<DASH, 52, 50, DOT, 53, 48>>,
                          Groceries, StrInt(1)>>) =>
          DB = ScenarioStored
    /\ (last.op = "monthly_summary" /\ last.args = <<2024, 3>> /\ DB = ScenarioStored) =>
          last.returned = <<[name |-> Some(Food), income_total |-> 0, expense_total |-> 4250]>>
    /\ (last.op = "delete_category" /\ last.args = <<1>> /\ last.before = ScenarioStored) =>
          /\ last.returned
          /\ list_transactions(DB, None, None, None) =
                <<[ScenarioTransaction EXCEPT !.category_id = None]>>
    /\ (last.op = "monthly_summary" /\ last.args = <<2024, 3>> /\ DB = ScenarioCleared) =>
          last.returned = <<[name |-> None, income_total |-> 0, expense_total |-> 4250]>>

\* the scenario was played up to the deletion of category 1
C18_Witness ==
    /\ last.op = "delete_category"
    /\ last.args = <<1>>
    /\ last.before = ScenarioStored
    /\ DB = ScenarioCleared

\* C19: in every state no two categories have the same stored name, the stored
\* name being the name passed with the surrounding whitespace trimmed, compared
\* case-sensitively: add_category of a name that, trimmed, is a stored name raises
\* the duplicate error and changes nothing; any other name, one that differs from a
\* stored name in letter case only included, is stored as a new category
C19_NamesUniqueTrimmedCaseSensitive ==
    /\ \A c \in categories : \A d \in categories : c.name = d.name => c = d
    /\ \A c \in categories :
          c.name = <<>> \/ (~IsSpace(c.name[1]) /\ ~IsSpace(c.name[Len(c.name)]))
    /\ last.op = "add_category" =>
          IF \E c \in last.before.categories : c.name = Strip(last.args[1])
          THEN last.raised = IntegrityError /\ categories = last.before.categories
          ELSE /\ last.raised = ""
               /\ categories = last.before.categories \cup
                      {[id |-> last.returned[1], name |-> Strip(last.args[1])]}

\* with "a" and "A" both stored, " a" was refused as a duplicate
C19_Witness ==
    /\ last.op = "add_category"
    /\ last.args = <<(<<SP, 97>>)>>
    /\ last.raised = IntegrityError
    /\ Names(categories) = {<<97>>, <<65>>}

\* text compared character code by character code, a proper prefix first
RECURSIVE CodePointBefore(_, _)
CodePointBefore(a, b) ==
    IF a = <<>> THEN b # <<>>
    ELSE IF b = <<>> THEN FALSE
    ELSE IF a[1] # b[1] THEN a[1] < b[1]
    ELSE CodePointBefore(Tail(a), Tail(b))

\* C20: list_categories returns every stored category exactly once, as its id and
\* name, in ascending order of name, and the empty sequence, raising nothing, when
\* there is no category
C20_ListCategoriesAllByName ==
    last.op = "list_categories" =>
        /\ last.raised = ""
        /\ Rows(last.returned) = categories
        /\ Len(last.returned) = Cardinality(categories)
        /\ \A i \in 1..Len(last.returned), j \in 1..Len(last.returned) :
              i < j => CodePointBefore(last.returned[i].name, last.returned[j].name)
        /\ categories = {} => last.returned = <<>>

\* two categories were listed, the one created later first
C20_Witness ==
    /\ last.op = "list_categories"
    /\ Len(last.returned) = 2
    /\ last.returned[1].id > last.returned[2].id

\* a stored transaction's calendar date within the inclusive bounds given
WithinDates(t, start, end) ==
    /\ start # None => ~Later(Strptime(start[1]), Strptime(t.date))
    /\ end # None => ~Later(Strptime(t.date), Strptime(end[1]))

\* C21: for every start and end date the list-transactions flow and the export
\* flow accept, the rows listed or exported are exactly the stored transactions
\* (of the category filter) whose calendar date is within the inclusive bounds, so
\* a bound typed without zero padding selects what its zero-padded form selects
C21_AcceptedBoundsSelectByCalendarDate ==
    /\ (last.flow = "list_transactions_flow" /\ last.op = "list_transactions") =>
          Rows(last.returned) =
              {t \in Rows(list_transactions(DB, last.args[1], None, None)) :
                  WithinDates(t, last.args[2], last.args[3])}
    /\ (last.flow = "export_csv_flow" /\ last.op = "export_to_csv") =>
          {last.file[i][1] : i \in 2..Len(last.file)} =
              {StrInt(t.id) :
                  t \in {u \in Rows(list_transactions(DB, last.args[2], None, None)) :
                            WithinDates(u, last.args[3], last.args[4])}}

\* C22: no exception leaves a menu flow: a rejected input is reported, the store is
\* as it was and main() is back at its menu with the connection open; so for the
\* add-transaction flow given an integer category id that names no category
C22_RejectedInputCaughtAtFlow ==
    /\ last.escaped = ""
    /\ last.raised # "" =>
          /\ conn = "open"
          /\ last.printed # ""
          /\ DB = last.before
    /\ (/\ last.flow = "add_transaction_flow"
        /\ last.op = "add_transaction"
        /\ last.args[4] # None
        /\ \A c \in last.before.categories : c.id # last.args[4][1]) =>
          /\ conn = "open"
          /\ transactions = last.before.transactions

RECURSIVE TotalOver(_, _)
TotalOver(summary, column) ==
    IF summary = <<>> THEN 0
    ELSE (IF column = "income" THEN Head(summary).income_total ELSE Head(summary).expense_total)
            + TotalOver(Tail(summary), column)

\* C23: in every summary taken, each transaction dated in the month is in exactly
\* one row, the income_total of the rows add up to the sum of amount over the
\* month's income transactions and the expense_total to the sum over its expense
\* transactions, categories having been deleted or not
C23_SummaryConservesTotals ==
    last.op = "monthly_summary" =>
        LET dated == {t \in transactions : YearMonth(t) = last.args}
        IN  /\ \A t \in dated :
                  Cardinality({i \in 1..Len(last.returned) :
                                  last.returned[i].name = ResolvedName(t)}) = 1
            /\ TotalOver(last.returned, "income") =
                  AmountTotal({t \in dated : t.type = "income"})
            /\ TotalOver(last.returned, "expense") =
                  AmountTotal({t \in dated : t.type = "expense"})

\* after a category was deleted, a summary has the row None and the row of the
\* category that is left, two categories having existed
C23_Witness ==
    /\ last.op = "monthly_summary"
    /\ sqlite_sequence.categories = 2
    /\ Cardinality(categories) = 1
    /\ Len(last.returned) = 2
    /\ TotalOver(last.returned, "income") + TotalOver(last.returned, "expense") > 0

====
